---- MODULE Spec2Model ----
(***************************************************************************)
(* waterfall: an RTMP publish bench tool.  main() validates the            *)
(* destinations and the input path, creates a broadcast channel (the Hub), *)
(* creates one publish client per destination, awaits all client futures   *)
(* (the readiness barrier), then forwards every decoded FLV tag to the     *)
(* channel (the Pacer's broadcast loop) and returns.                       *)
(*                                                                         *)
(* main.rs is the only source file; the publish client (rtmp::client), the *)
(* FLV reader (flv) and the URL parser (rtmp_url) are modules of the       *)
(* repository whose code is absent, so their steps are modelled from the   *)
(* specification (sections 4.2 - 4.4).  The Hub is tokio's broadcast       *)
(* channel, modelled by its contract: a ring of the last Capacity values,  *)
(* a tail position, one cursor per receiver.                               *)
(***************************************************************************)
EXTENDS Integers, Sequences, FiniteSets, TLC

VARIABLES
    args,       \* the arguments given on the command line
    clipc,      \* where the resolution of the destinations is
    urls,       \* the destination strings produced so far (main.rs:113-127)
    cfg,        \* the command line and the files it names (fixed for the run)
    mainpc,     \* where main() is
    abortWhy,   \* why main() aborted before the run
    reported,   \* the destination entries named in the abort message
    created,    \* number of clients created by the loop of main.rs:145
    txAlive,    \* main holds the Sender tx
    mainRx,     \* main holds the Receiver _rx of main.rs:142
    ring,       \* the Hub's retained values, oldest first
    pos,        \* the Hub's tail position (number of values sent, wrapping)
    rd,         \* tags the reader has yielded in the current pass of the file
    phase,      \* each Publisher's phase
    resolved,   \* each client future has resolved (main.rs:155 waits for it)
    rxAlive,    \* each Publisher's Hub subscription exists
    next,       \* each subscription's cursor (position of its next value)
    lastRecv,   \* the outcome of each subscription's latest receive
    closedBy,   \* what closed each Publisher
    owed        \* history: per subscription, the packets published to it and
                \* neither received nor reported as skipped yet

vars == <<args, clipc, urls, cfg, mainpc, abortWhy, reported, created, txAlive, mainRx, ring, pos,
          rd, phase, resolved, rxAlive, next, lastRecv, closedBy, owed>>

cliVars  == <<args, clipc, urls>>
mainVars == <<mainpc, abortWhy, reported, created, txAlive, mainRx>>
hubVars  == <<ring, pos, rd>>
pubVars  == <<phase, resolved, rxAlive, next, lastRecv, closedBy, owed>>
runVars  == <<cfg, mainVars, hubVars, pubVars>>

----------------------------------------------------------------------------
(* Bounds of the model *)

\* destinations on the command line: 0 .. MaxDest
MaxDest == 2
\* tags in the input file: 0 .. MaxTags
MaxTags == 3
\* slots of the Hub's ring; stands for the 1024 of main.rs:142
Capacity == 2
\* a live subscription is observed until it is this many values behind
MaxUnread == 4
\* values of --concurrency: 0 .. MaxConcurrency
MaxConcurrency == 12

\* Positions wrap (tokio keeps them in a u64 and uses wrapping arithmetic);
\* the space is wider than any window of values that can be outstanding:
\* the ring and what a followed subscription is owed end at the tail and
\* span at most MaxUnread positions.
SeqSpace == MaxUnread + 1

Pubs == 1 .. MaxDest

----------------------------------------------------------------------------
(* Inputs *)

GoodUrl == "rtmp://h/app/key"
\* no stream key segment
BadUrl == "rtmp://h/app"
DestStrings == {GoodUrl, BadUrl}

DestLists == UNION {[1 .. n -> DestStrings] : n \in 0 .. MaxDest}

InputPaths ==
    { <<"a", ".", "f", "l", "v">>,
      <<"a", ".", "F", "L", "V">>,
      <<"a", ".", "F", "l", "v">>,
      <<"a", ".", "m", "p", "4">> }

\* a tag of the file decodes ("ok") or is corrupt ("err")
TagLists == UNION {[1 .. n -> {"ok", "err"}] : n \in 0 .. MaxTags}

\* opens: the input file can be opened and read as FLV (main.rs:140)
Configs ==
    [dests : DestLists, input : InputPaths, opens : BOOLEAN,
     repeat : BOOLEAN, tags : TagLists]

----------------------------------------------------------------------------
(* The command line: main.rs:73-127 *)

Absent == [present |-> FALSE]
Given(v) == [present |-> TRUE, value |-> v]

DigitChars == <<"0", "1", "2", "3", "4", "5", "6", "7", "8", "9">>

IsDigit(ch) == \E d \in 1 .. 10 : DigitChars[d] = ch

DigitValue(ch) == (CHOOSE d \in 1 .. 10 : DigitChars[d] = ch) - 1

RECURSIVE DigitsValue(_)
\* the number a string of decimal digits denotes
DigitsValue(s) ==
    IF s = <<>> THEN 0
    ELSE 10 * DigitsValue(SubSeq(s, 1, Len(s) - 1)) + DigitValue(s[Len(s)])

RECURSIVE ToDecimal(_)
\* main.rs:118  "{}" of a usize: its decimal digits, no sign, no padding
ToDecimal(n) ==
    IF n < 10 THEN <<DigitChars[n + 1]>>
    ELSE ToDecimal(n \div 10) \o <<DigitChars[(n % 10) + 1]>>

\* main.rs:115  c.parse::<usize>(): decimal digits after an optional "+";
\* -1 stands for Err
ParseUsize(s) ==
    LET body == IF s # <<>> /\ s[1] = "+" THEN Tail(s) ELSE s
    IN  IF body = <<>> \/ \E k \in 1 .. Len(body) : ~IsDigit(body[k])
        THEN -1
        ELSE DigitsValue(body)

Prefixes == { <<"s", "_">>, <<"s", "1">> }

ConcurrencyStrings ==
    {ToDecimal(n) : n \in 0 .. MaxConcurrency} \cup { <<"+", "2">>, <<"x">>, <<>> }

\* the list files a path can name, by their lines
ListFile(path) ==
    CASE path = "list" -> << <<"u", "a">>, <<"u", "b">> >>
      [] path = "empty" -> <<>>
      [] OTHER -> <<>>

\* the paths File::open succeeds on
FileOpens(path) == path \in {"list", "empty"}

ListPaths == {"list", "empty", "missing"}

ArgSets ==
    [input : BOOLEAN,
     prefix : {Absent} \cup {Given(p) : p \in Prefixes},
     concurrency : {Absent} \cup {Given(c) : c \in ConcurrencyStrings},
     list : {Absent} \cup {Given(f) : f \in ListPaths}]

\* mutant: the list file is in no group
ClapVerdict_NoListGroup(a) ==
    IF a.prefix.present /\ ~a.concurrency.present THEN "usage_error"
    ELSE IF ~a.input THEN "usage_error"
    ELSE "ok"

\* main.rs:78-111  get_matches(): "prefix group" (PREFIX) conflicts with
\* DEST_LIST_FILE and requires CONCURRENCY; "list group" (DEST_LIST_FILE)
\* conflicts with "prefix group" and CONCURRENCY; INPUT is required;
\* neither group is required
ClapVerdict(a) ==
    IF a.list.present /\ (a.prefix.present \/ a.concurrency.present)
    THEN "usage_error"
    ELSE IF a.prefix.present /\ ~a.concurrency.present THEN "usage_error"
    ELSE IF ~a.input THEN "usage_error"
    ELSE "ok"

\* main.rs:114-116  the count of the range; unwrap_or(1) without the option
Concurrency(a) ==
    IF a.concurrency.present THEN ParseUsize(a.concurrency.value) ELSE 1

\* mutant: the suffixes are counted from one
PrefixUrl_OneBased(prefix, c) == prefix \o ToDecimal(c + 1)

\* main.rs:118  format!("{}{}", prefix, c)
PrefixUrl(prefix, c) == prefix \o ToDecimal(c)

----------------------------------------------------------------------------
(* Pre-flight: main.rs:128-139 *)

\* rtmp_url::parse_rtmp_url: Ok for scheme://host[:port]/application/stream_key
ParseRtmpUrl(u) == IF u = GoodUrl THEN "Ok" ELSE "Err"

\* main.rs:128  urls.map(parse_rtmp_url).collect::<Vec<Result<..>>>()
ParsedUrls(dests) == [i \in DOMAIN dests |-> ParseRtmpUrl(dests[i])]

UrlErrors(dests) == {i \in DOMAIN dests : ParsedUrls(dests)[i] = "Err"}

SetMin(S) == CHOOSE x \in S : \A y \in S : x <= y

\* main.rs:131-133  the entries the panic message reports:
\* urls.iter().find(|u| u.is_err()) yields the first failure only
PanicReport(dests) ==
    IF UrlErrors(dests) = {} THEN {} ELSE {SetMin(UrlErrors(dests))}

EndsWith(s, suf) ==
    /\ Len(s) >= Len(suf)
    /\ SubSeq(s, Len(s) - Len(suf) + 1, Len(s)) = suf

\* main.rs:138  input_file_path.ends_with(".flv") || ends_with(".FLV")
InputAccepted(path) ==
    \/ EndsWith(path, <<".", "f", "l", "v">>)
    \/ EndsWith(path, <<".", "F", "L", "V">>)

\* mutant: no check of the parse results
PreflightVerdict_NoUrlCheck(c) ==
    IF ~InputAccepted(c.input) THEN "bad_ext"
    ELSE IF ~c.opens THEN "io_error"
    ELSE "ok"

\* main.rs:131-140  the URL check comes first, then the extension assert,
\* then read_flv_tag(..).await? returns the error of opening the file
PreflightVerdict(c) ==
    IF UrlErrors(c.dests) # {} THEN "url_error"
    ELSE IF ~InputAccepted(c.input) THEN "bad_ext"
    ELSE IF ~c.opens THEN "io_error"
    ELSE "ok"

----------------------------------------------------------------------------
(* The reader: flv::read_flv_tag, main.rs:140 and 159 *)

\* the item msgs.next() yields after r tags of the current pass
ReaderItem(c, r) ==
    IF r < Len(c.tags) THEN c.tags[r + 1]
    ELSE IF c.repeat /\ Len(c.tags) > 0 THEN c.tags[1]
    ELSE "none"

\* the index in the file of the tag that item is
ReaderTag(c, r) == IF r < Len(c.tags) THEN r + 1 ELSE 1

ReaderAdvance(c, r) ==
    IF r < Len(c.tags) THEN r + 1
    ELSE IF c.repeat /\ Len(c.tags) > 0 THEN 1
    ELSE r

----------------------------------------------------------------------------
(* The Hub: tokio::sync::broadcast, main.rs:142, 146, 160, 164 *)

Wrap(n) == n % SeqSpace

\* values sent since subscription i's cursor
Unread(i) == Wrap(pos - next[i] + SeqSpace)

\* main.rs:160  tx.receiver_count()
ReceiverCount ==
    (IF mainRx THEN 1 ELSE 0) + Cardinality({i \in Pubs : rxAlive[i]})

\* mutant: the newest value overwrites the newest slot when the ring is full
HubSend_Overwrite(r, p, tag) ==
    IF Len(r) >= Capacity
    THEN SubSeq(r, 1, Len(r) - 1) \o <<[sn |-> p, tag |-> tag]>>
    ELSE Append(r, [sn |-> p, tag |-> tag])

\* mutant: the value is stored twice
HubSend_Duplicate(r, p, tag) ==
    LET a == r \o <<[sn |-> p, tag |-> tag], [sn |-> p, tag |-> tag]>>
    IN  SubSeq(a, Len(a) - Capacity + 1, Len(a))

\* main.rs:164  tx.send(msg): the value takes the slot of the oldest one
HubSend(r, p, tag) ==
    LET a == Append(r, [sn |-> p, tag |-> tag])
    IN  IF Len(a) > Capacity THEN Tail(a) ELSE a

\* mutant: a bounded queue per subscriber, full when Capacity values wait
HubSendReady_Backpressure == \A i \in Pubs : rxAlive[i] => Unread(i) < Capacity

\* main.rs:164  tx.send is a synchronous call: it waits for no receiver
HubSendReady == TRUE

\* what subscription i's next rx.recv() returns
RecvOutcome(i) ==
    LET u == Unread(i)
    IN  IF u > Len(ring)
        THEN [kind |-> "lag", n |-> u - Len(ring)]
        ELSE IF u > 0
        THEN [kind |-> "pkt", pkt |-> ring[Len(ring) - u + 1]]
        ELSE IF ~txAlive THEN [kind |-> "closed"]
        ELSE [kind |-> "pending"]

\* a live subscription is followed while it is fewer than MaxUnread behind
WithinBound == \A i \in Pubs : rxAlive[i] => Unread(i) < MaxUnread

----------------------------------------------------------------------------
(* Initial state *)

NoRecv == [kind |-> "none"]

\* main has resolved nothing and started nothing
RunStart ==
    /\ mainpc = "start"
    /\ abortWhy = "none"
    /\ reported = {}
    /\ created = 0
    /\ txAlive = FALSE
    /\ mainRx = FALSE
    /\ ring = <<>>
    /\ pos = 0
    /\ rd = 0
    /\ phase = [i \in Pubs |-> "Idle"]
    /\ resolved = [i \in Pubs |-> FALSE]
    /\ rxAlive = [i \in Pubs |-> FALSE]
    /\ next = [i \in Pubs |-> 0]
    /\ lastRecv = [i \in Pubs |-> NoRecv]
    /\ closedBy = [i \in Pubs |-> "none"]
    /\ owed = [i \in Pubs |-> <<>>]

\* the run starts with the destinations resolved from a list file
Init ==
    /\ cfg \in Configs
    /\ args = [input |-> TRUE, prefix |-> Absent, concurrency |-> Absent,
               list |-> Given("list")]
    /\ clipc = "resolved"
    /\ urls = cfg.dests
    /\ RunStart

NumDests == Len(cfg.dests)

----------------------------------------------------------------------------
(* main() *)

\* main.rs:128-142  validation, then the channel and main's own receiver
Preflight ==
    /\ mainpc = "start"
    /\ LET v == PreflightVerdict(cfg)
       IN  IF v # "ok"
           THEN /\ mainpc' = "aborted"
                /\ abortWhy' = v
                /\ reported' = (IF v = "url_error" THEN PanicReport(cfg.dests) ELSE {})
                /\ UNCHANGED <<txAlive, mainRx>>
           ELSE /\ mainpc' = (IF NumDests = 0 THEN "barrier" ELSE "subscribe")
                /\ txAlive' = TRUE
                /\ mainRx' = TRUE
                /\ UNCHANGED <<abortWhy, reported>>
    /\ UNCHANGED <<cliVars, cfg, created, hubVars, pubVars>>

\* mutant: the loop stops one destination short
LoopDone_OffByOne(i) == i + 1 >= NumDests

\* mutant: the loop is left after its first iteration
LoopDone_Early(i) == TRUE

\* main.rs:145  for url in urls: the iteration for destination i was the last
LoopDone(i) == i = NumDests

\* main.rs:145-149  one iteration: tx.subscribe() and Client::new(url, rx, ..)
Subscribe ==
    /\ mainpc = "subscribe"
    /\ LET i == created + 1
       IN  /\ created' = i
           /\ rxAlive' = [rxAlive EXCEPT ![i] = TRUE]
           /\ next' = [next EXCEPT ![i] = pos]
           /\ phase' = [phase EXCEPT ![i] = "Connecting"]
           /\ mainpc' = (IF LoopDone(i) THEN "barrier" ELSE "subscribe")
    /\ UNCHANGED <<cliVars, cfg, abortWhy, reported, txAlive, mainRx, hubVars,
                   resolved, lastRecv, closedBy, owed>>

\* mutant: the barrier opens as soon as one client future has resolved
BarrierReady_Any == \E i \in 1 .. NumDests : resolved[i]

\* mutant: the barrier counts only the clients that reached Publishing
BarrierReady_AllPublishing == \A i \in 1 .. NumDests : phase[i] = "Publishing"

\* main.rs:155  clients.collect::<Vec<_>>().await: every future that was
\* pushed has resolved
BarrierReady == \A i \in 1 .. created : resolved[i]

\* main.rs:155-156  the results are discarded (let _ =)
Barrier ==
    /\ mainpc = "barrier"
    /\ BarrierReady
    /\ mainpc' = "loop"
    /\ UNCHANGED <<cliVars, cfg, abortWhy, reported, created, txAlive, mainRx, hubVars, pubVars>>

\* main.rs:159-171  one iteration of the broadcast loop
BroadcastStep ==
    /\ mainpc = "loop"
    /\ LET item == ReaderItem(cfg, rd)
       IN  IF item # "ok"
           THEN \* None, or Some(Err(_)): the while-let pattern fails
                /\ mainpc' = "end"
                /\ rd' = (IF item = "none" THEN rd ELSE ReaderAdvance(cfg, rd))
                /\ UNCHANGED <<ring, pos, owed>>
           ELSE IF ReceiverCount <= 0
           THEN \* main.rs:160-163
                /\ mainpc' = "end"
                /\ rd' = ReaderAdvance(cfg, rd)
                /\ UNCHANGED <<ring, pos, owed>>
           ELSE IF ReceiverCount = 0
           THEN \* main.rs:166-169  send fails when no receiver is left
                /\ mainpc' = "end"
                /\ rd' = ReaderAdvance(cfg, rd)
                /\ UNCHANGED <<ring, pos, owed>>
           ELSE \* main.rs:164-165
                /\ HubSendReady
                /\ WithinBound
                /\ mainpc' = "loop"
                /\ rd' = ReaderAdvance(cfg, rd)
                /\ ring' = HubSend(ring, pos, ReaderTag(cfg, rd))
                /\ pos' = Wrap(pos + 1)
                /\ owed' = [i \in Pubs |->
                              IF rxAlive[i]
                              THEN Append(owed[i], [sn |-> pos, tag |-> ReaderTag(cfg, rd)])
                              ELSE owed[i]]
    /\ UNCHANGED <<cliVars, cfg, abortWhy, reported, created, txAlive, mainRx,
                   phase, resolved, rxAlive, next, lastRecv, closedBy>>

\* main.rs:173-175  main's future completes: tx and _rx are dropped
MainReturn ==
    /\ mainpc = "end"
    /\ mainpc' = "dropped"
    /\ txAlive' = FALSE
    /\ mainRx' = FALSE
    /\ UNCHANGED <<cliVars, cfg, abortWhy, reported, created, hubVars, pubVars>>

Running(i) == phase[i] \in {"Connecting", "Handshaking", "Connected", "Publishing"}

\* main.rs:69  #[tokio::main]: block_on returns and the runtime is dropped,
\* which cancels every task still running
RuntimeShutdown ==
    /\ mainpc = "dropped"
    /\ mainpc' = "done"
    /\ phase' = [i \in Pubs |-> IF Running(i) THEN "Closed" ELSE phase[i]]
    /\ closedBy' = [i \in Pubs |-> IF Running(i) THEN "cancelled" ELSE closedBy[i]]
    /\ rxAlive' = [i \in Pubs |-> FALSE]
    /\ UNCHANGED <<cliVars, cfg, abortWhy, reported, created, txAlive, mainRx, hubVars,
                   resolved, next, lastRecv, owed>>

----------------------------------------------------------------------------
(* The Publishers: rtmp::client::Client, specification section 4.4 *)

StartupPhases == {"Connecting", "Handshaking", "Connected"}

\* mutant: the session is taken as negotiated without a handshake
NextPhase_SkipHandshake(p) ==
    CASE p = "Connecting" -> "Connected"
      [] p = "Handshaking" -> "Connected"
      [] p = "Connected" -> "Publishing"
      [] OTHER -> p

NextPhase(p) ==
    CASE p = "Connecting" -> "Handshaking"
      [] p = "Handshaking" -> "Connected"
      [] p = "Connected" -> "Publishing"

\* the receiver is dropped with the Publisher
Close(i, why) ==
    /\ phase' = [phase EXCEPT ![i] = "Closed"]
    /\ closedBy' = [closedBy EXCEPT ![i] = why]
    /\ rxAlive' = [rxAlive EXCEPT ![i] = FALSE]
    /\ next' = [next EXCEPT ![i] = 0]
    /\ owed' = [owed EXCEPT ![i] = <<>>]
    /\ lastRecv' = [lastRecv EXCEPT ![i] = NoRecv]

\* main.rs:147-155  the client futures are polled only by collect().await
StartupPolled == mainpc = "barrier"

\* connect, handshake, session negotiation; the future resolves at Publishing
StartupAdvance(i) ==
    /\ StartupPolled
    /\ phase[i] \in StartupPhases
    /\ phase' = [phase EXCEPT ![i] = NextPhase(phase[i])]
    /\ resolved' = [resolved EXCEPT ![i] = (NextPhase(phase[i]) = "Publishing")]
    /\ UNCHANGED <<cliVars, cfg, mainVars, hubVars, rxAlive, next, lastRecv, closedBy, owed>>

\* ConnectionError, HandshakeError, SessionNegotiationError (refusal or timeout)
StartupFail(i) ==
    /\ StartupPolled
    /\ phase[i] \in StartupPhases
    /\ Close(i, "startup_error")
    /\ resolved' = [resolved EXCEPT ![i] = TRUE]
    /\ UNCHANGED <<cliVars, cfg, mainVars, hubVars>>

\* the Publishing loop's receive from the Hub subscription
Recv(i) ==
    /\ phase[i] = "Publishing"
    /\ rxAlive[i]
    /\ LET out == RecvOutcome(i)
       IN  CASE out.kind = "pkt" ->
                  \* translated to an RTMP message and transmitted
                  /\ lastRecv' = [lastRecv EXCEPT ![i] = out]
                  /\ next' = [next EXCEPT ![i] = Wrap(next[i] + 1)]
                  /\ owed' = [owed EXCEPT ![i] = Tail(owed[i])]
                  /\ UNCHANGED <<phase, closedBy, rxAlive>>
             [] out.kind = "lag" ->
                  \* logged and otherwise ignored
                  /\ lastRecv' = [lastRecv EXCEPT ![i] = out]
                  /\ next' = [next EXCEPT ![i] = Wrap(next[i] + out.n)]
                  /\ owed' = [owed EXCEPT ![i] = SubSeq(owed[i], out.n + 1, Len(owed[i]))]
                  /\ UNCHANGED <<phase, closedBy, rxAlive>>
             [] out.kind = "closed" ->
                  \* the sender is gone and nothing is left to read
                  Close(i, "hub_closed")
             [] OTHER ->
                  \* nothing to read yet: the receive stays pending
                  FALSE
    /\ UNCHANGED <<cliVars, cfg, mainVars, hubVars, resolved>>

\* the peer closes the connection, or a transmission fails (TransportError)
Disconnect(i) ==
    /\ phase[i] = "Publishing"
    /\ mainpc # "done"
    /\ Close(i, "disconnected")
    /\ UNCHANGED <<cliVars, cfg, mainVars, hubVars, resolved>>

----------------------------------------------------------------------------
(* Specifications *)

Next ==
    \/ Preflight
    \/ Subscribe
    \/ Barrier
    \/ BroadcastStep
    \/ MainReturn
    \/ RuntimeShutdown
    \/ \E i \in Pubs : StartupAdvance(i)
    \/ \E i \in Pubs : StartupFail(i)
    \/ \E i \in Pubs : Recv(i)
    \/ \E i \in Pubs : Disconnect(i)

Spec == Init /\ [][Next]_vars

\* main runs to completion; every connect, handshake and negotiation step is
\* bounded by a timeout (section 4.4); a Publishing task is scheduled
FairSpec ==
    /\ Spec
    /\ WF_vars(Preflight)
    /\ WF_vars(Subscribe)
    /\ WF_vars(Barrier)
    /\ WF_vars(BroadcastStep)
    /\ WF_vars(MainReturn)
    /\ WF_vars(RuntimeShutdown)
    /\ \A i \in Pubs : WF_vars(StartupAdvance(i) \/ StartupFail(i))
    /\ \A i \in Pubs : WF_vars(Recv(i))

----------------------------------------------------------------------------
(* Resolution of the destinations: main.rs:73-128 *)

\* main.rs:73-111  get_matches() exits with a usage error or returns
GetMatches ==
    /\ clipc = "start"
    /\ clipc' = (IF ClapVerdict(args) = "ok" THEN "matched" ELSE "usage_error")
    /\ UNCHANGED <<args, urls, runVars>>

\* main.rs:113-127  the iterator of destination strings is chosen
SelectMode ==
    /\ clipc = "matched"
    /\ clipc' =
         (IF args.prefix.present
          THEN IF Concurrency(args) < 0 THEN "panic_concurrency" ELSE "generate"
          ELSE IF ~args.list.present THEN "panic_no_list"
          ELSE IF ~FileOpens(args.list.value) THEN "io_error"
          ELSE "lines")
    /\ UNCHANGED <<args, urls, runVars>>

\* main.rs:118, 128  the range 0..concurrency yields its next number, or ends
GenerateUrl ==
    /\ clipc = "generate"
    /\ IF Len(urls) < Concurrency(args)
       THEN /\ urls' = Append(urls, PrefixUrl(args.prefix.value, Len(urls)))
            /\ UNCHANGED clipc
       ELSE /\ clipc' = "resolved"
            /\ UNCHANGED urls
    /\ UNCHANGED <<args, runVars>>

\* main.rs:125, 128  the file yields its next line, or ends
ReadLine ==
    /\ clipc = "lines"
    /\ LET file == ListFile(args.list.value)
       IN  IF Len(urls) < Len(file)
           THEN /\ urls' = Append(urls, file[Len(urls) + 1])
                /\ UNCHANGED clipc
           ELSE /\ clipc' = "resolved"
                /\ UNCHANGED urls
    /\ UNCHANGED <<args, runVars>>

\* the run of CliSpec does not start: its input is an empty file
IdleConfig ==
    [dests |-> <<>>, input |-> <<"a", ".", "f", "l", "v">>, opens |-> TRUE,
     repeat |-> FALSE, tags |-> <<>>]

CliInit ==
    /\ args \in ArgSets
    /\ clipc = "start"
    /\ urls = <<>>
    /\ cfg = IdleConfig
    /\ RunStart

CliNext ==
    \/ GetMatches
    \/ SelectMode
    \/ GenerateUrl
    \/ ReadLine

CliSpec == CliInit /\ [][CliNext]_vars

----------------------------------------------------------------------------
(* Claims *)

Created == 1 .. NumDests

Failures == {"startup_error", "disconnected"}

\* every Publisher of a run with destinations has dropped its subscription
AllPublishersClosed ==
    /\ NumDests > 0
    /\ created = NumDests
    /\ \A i \in Created : phase[i] = "Closed" /\ ~rxAlive[i]

Terminated == mainpc \in {"done", "aborted"}

AllTagsOk == \A k \in DOMAIN cfg.tags : cfg.tags[k] = "ok"

\* C1: once every Publisher's subscription is dropped, the iteration of the
\* broadcast loop that has the next packet leaves the loop and publishes nothing.
C1_QuitsWithoutSubscribers ==
    [][(mainpc = "loop" /\ AllPublishersClosed /\ ReaderItem(cfg, rd) = "ok")
          => (mainpc' = "end" /\ ring' = ring /\ pos' = pos)]_vars

\* C2: no value is in the Hub unless every client was created and every client
\* future has resolved, each Publisher being in Publishing or Closed.
C2_BarrierBeforePublish ==
    ring # <<>> =>
        /\ created = NumDests
        /\ \A i \in Created : resolved[i] /\ phase[i] \in {"Publishing", "Closed"}

C2_Witness ==
    /\ ring # <<>>
    /\ NumDests = 2
    /\ \E i, j \in Created : closedBy[i] = "startup_error" /\ phase[j] = "Publishing"

\* C3: after a Publisher has failed, the other Publishers are served to the
\* end: when the run is over, no survivor is left with published packets it
\* has not received.
C3_SurvivorsServed ==
    (mainpc = "done" /\ \E f \in Created : closedBy[f] \in Failures)
        => \A i \in Created : closedBy[i] \notin Failures => owed[i] = <<>>

\* C3, the isolation part: a step that closes one Publisher by a failure
\* leaves main where it is, changes no other Publisher, and lowers the
\* receiver count by exactly one.
C3_Isolation ==
    [][\A f \in Pubs :
          (closedBy[f] = "none" /\ closedBy'[f] \in Failures)
          => /\ mainpc' = mainpc
             /\ <<ring, pos, rd>>' = <<ring, pos, rd>>
             /\ \A i \in Pubs \ {f} :
                   <<phase[i], rxAlive[i], next[i], owed[i], closedBy[i]>>'
                       = <<phase[i], rxAlive[i], next[i], owed[i], closedBy[i]>>
             /\ ReceiverCount' = ReceiverCount - 1]_vars

\* C4: when a finite source is exhausted and the run is over, every Publisher
\* that did not fail has received every packet published to it.
C4_CompleteDelivery ==
    (mainpc = "done" /\ ~cfg.repeat /\ AllTagsOk)
        => \A i \in Created : closedBy[i] \in Failures \/ owed[i] = <<>>

\* C5: once all Publishers are closed the run terminates, repeat mode included.
C5_Terminates == AllPublishersClosed ~> Terminated

\* C6: the barrier opens although some Publisher never reaches Publishing:
\* from the barrier, with a packet to send, the first publish happens.
C6_BarrierOpens ==
    (mainpc = "barrier" /\ ReaderItem(cfg, rd) = "ok") ~> (ring # <<>>)

C6_Witness ==
    /\ ring # <<>>
    /\ \E i, j \in Created :
          /\ closedBy[i] = "startup_error"
          /\ phase[j] = "Publishing"
          /\ lastRecv[j].kind = "pkt"

\* C7: every receive of a subscription returns the oldest packet published to
\* it that it has neither received nor been told it missed; a subscription
\* more than Capacity behind is told Lagged(n), n the number it missed, and
\* then continues from the oldest retained packet.
C7_OrderedDelivery ==
    [][\A i \in Pubs :
          (rxAlive[i] /\ rxAlive'[i] /\ next'[i] # next[i])
          => CASE lastRecv'[i].kind = "pkt" ->
                    /\ owed[i] # <<>>
                    /\ lastRecv'[i].pkt = Head(owed[i])
               [] lastRecv'[i].kind = "lag" ->
                    /\ Len(owed[i]) > Capacity
                    /\ lastRecv'[i].n = Len(owed[i]) - Capacity
                    /\ owed'[i] = ring
                    /\ RecvOutcome(i)'.kind = "pkt"
                    /\ RecvOutcome(i)'.pkt = ring[1]
               [] OTHER -> FALSE]_vars

C7_Witness ==
    \E i \in Pubs :
        /\ rxAlive[i]
        /\ lastRecv[i] = [kind |-> "lag", n |-> 2]
        /\ owed[i] = ring

\* C8: a publish step is enabled whatever the subscribers have consumed, and
\* the newest packet is then the newest one due to every live subscription.
C8_SendNeverWaits ==
    /\ (mainpc = "loop" /\ ReaderItem(cfg, rd) = "ok" /\ WithinBound)
          => ENABLED BroadcastStep
    /\ \A i \in Pubs :
          (rxAlive[i] /\ owed[i] # <<>>)
          => (ring # <<>> /\ owed[i][Len(owed[i])] = ring[Len(ring)])

C8_Witness ==
    /\ mainpc = "loop"
    /\ \E i, j \in Pubs :
          /\ rxAlive[i] /\ Unread(i) > Capacity
          /\ rxAlive[j] /\ Unread(j) = 0
          /\ lastRecv[j].kind = "pkt"
          /\ lastRecv[j].pkt = ring[Len(ring)]

LowerCase(ch) ==
    CASE ch = "F" -> "f" [] ch = "L" -> "l" [] ch = "V" -> "v" [] OTHER -> ch

\* the path's extension is flv, compared without regard to case
FlvExtension(path) ==
    /\ Len(path) >= 4
    /\ [k \in 1 .. 4 |-> LowerCase(path[Len(path) - 4 + k])] = <<".", "f", "l", "v">>

NothingStarted ==
    /\ created = 0
    /\ ~txAlive /\ ~mainRx
    /\ ring = <<>> /\ pos = 0 /\ rd = 0
    /\ \A i \in Pubs : phase[i] = "Idle" /\ ~rxAlive[i] /\ ~resolved[i]

\* C9: with a destination that does not parse, or an input path without the
\* flv extension, main never gets past validation: no channel, no
\* subscription, no client, no packet.
C9_PreflightAbort ==
    (\/ \E k \in DOMAIN cfg.dests : ParseRtmpUrl(cfg.dests[k]) = "Err"
     \/ ~FlvExtension(cfg.input))
        => (mainpc \in {"start", "aborted"} /\ NothingStarted)

C9_Witness ==
    /\ mainpc = "aborted"
    /\ abortWhy = "bad_ext"
    /\ NumDests = 2
    /\ NothingStarted

\* C10: an abort for malformed destinations reports every malformed entry.
C10_AllErrorsReported ==
    (mainpc = "aborted" /\ abortWhy = "url_error")
        => reported = {k \in DOMAIN cfg.dests : ParseRtmpUrl(cfg.dests[k]) = "Err"}

\* C11: a decode error of one tag does not end the broadcast loop: the
\* iteration that gets a corrupt item followed by a decodable one leaves main
\* in the loop, with the decodable one next.
C11_DecodeErrorSkipped ==
    [][(/\ mainpc = "loop"
        /\ ReaderItem(cfg, rd) = "err"
        /\ ReaderItem(cfg, ReaderAdvance(cfg, rd)) = "ok")
          => (mainpc' = "loop" /\ rd' = ReaderAdvance(cfg, rd))]_vars

PastSubscribe == mainpc \in {"barrier", "loop", "end", "dropped", "done"}

\* C12: a run that passes validation creates one Publisher per destination,
\* no more and no fewer; a subscription is made, and a connection started,
\* only for a Publisher that did not exist before, and a Publisher once
\* created or closed is never created again.
C12_OnePublisherPerDestination ==
    /\ [](PastSubscribe =>
            /\ created = NumDests
            /\ \A i \in Pubs :
                  IF i <= NumDests
                  THEN phase[i] # "Idle"
                  ELSE phase[i] = "Idle" /\ ~rxAlive[i])
    /\ [][\A i \in Pubs :
            /\ (rxAlive'[i] /\ ~rxAlive[i]) => (phase[i] = "Idle" /\ i = created + 1)
            /\ (phase'[i] = "Connecting" /\ phase[i] # "Connecting") => phase[i] = "Idle"
            /\ phase[i] # "Idle" => phase'[i] # "Idle"
            /\ phase[i] = "Closed" => (phase'[i] = "Closed" /\ ~rxAlive'[i])]_vars

C12_Witness ==
    /\ mainpc = "loop"
    /\ NumDests = 2
    /\ created = 2
    /\ \A i \in Created : rxAlive[i] /\ phase[i] = "Publishing"

\* C15: the input path is refused for its extension exactly when the
\* extension is not flv under a comparison that ignores case: a run whose
\* destinations parse is aborted for the extension only if the path does not
\* end in .flv in any mix of cases, and a path that does not is never let by.
C15_ExtensionIgnoresCase ==
    /\ abortWhy = "bad_ext" => ~FlvExtension(cfg.input)
    /\ (mainpc # "start" /\ abortWhy # "url_error" /\ ~FlvExtension(cfg.input))
          => abortWhy = "bad_ext"

\* the values the Hub retains are consecutive items of the reader
RingFollowsReader ==
    \A k \in 1 .. Len(ring) - 1 :
        /\ ring[k + 1].sn = Wrap(ring[k].sn + 1)
        /\ ring[k + 1].tag = ReaderAdvance(cfg, ring[k].tag)

\* C16: what has been published is a prefix of what the reader yields: a
\* publish stores the item the reader is at, once, behind the ones published
\* before it, and moves the reader on by one; the values the Hub retains are
\* consecutive items of the reader ending at the reader's position; an item
\* taken from the reader without being published ends the loop; outside the
\* loop nothing is read or published.
C16_PublishedIsPrefix ==
    /\ [](/\ RingFollowsReader
          /\ (mainpc = "loop" /\ ring # <<>>) =>
                /\ ring[Len(ring)].tag = rd
                /\ ring[Len(ring)].sn = Wrap(pos - 1 + SeqSpace))
    /\ [][/\ (ring' # ring \/ pos' # pos) =>
                /\ mainpc = "loop"
                /\ ReaderItem(cfg, rd) = "ok"
                /\ rd' = ReaderAdvance(cfg, rd)
                /\ pos' = Wrap(pos + 1)
                /\ ring' # <<>>
                /\ ring'[Len(ring')] = [sn |-> pos, tag |-> ReaderTag(cfg, rd)]
                /\ \A k \in 1 .. Len(ring') - 1 :
                      ring'[k] = ring[Len(ring) - (Len(ring') - 1) + k]
          /\ (rd' # rd /\ pos' = pos) => mainpc' = "end"
          /\ mainpc # "loop" => (rd' = rd /\ ring' = ring /\ pos' = pos)]_vars

C16_Witness ==
    /\ mainpc = "loop"
    /\ ~cfg.repeat
    /\ rd = 3
    /\ Len(ring) = Capacity
    /\ ring[Len(ring) - 1].tag = 2 /\ ring[Len(ring)].tag = 3

\* C17: every subscription is made before the first publish and none after
\* it: a subscription is made only while the Hub has published nothing; once
\* something was published every destination has its Publisher; the first
\* publish finds every live subscription with nothing unread and is owed to
\* each of them, so a subscription starts at the first published packet.
C17_SubscribeBeforePublish ==
    /\ []((ring # <<>> \/ pos # 0) => (created = NumDests /\ PastSubscribe))
    /\ [][/\ \A i \in Pubs :
                (rxAlive'[i] /\ ~rxAlive[i]) =>
                    /\ ring = <<>> /\ pos = 0 /\ rd = 0
                    /\ next'[i] = 0 /\ owed'[i] = <<>>
          /\ (ring = <<>> /\ ring' # <<>>) =>
                \A i \in Pubs :
                    rxAlive[i] =>
                        /\ Unread(i) = 0
                        /\ owed'[i] = <<ring'[1]>>
                        /\ (phase[i] = "Publishing" => RecvOutcome(i)' = [kind |-> "pkt", pkt |-> ring'[1]])]_vars

C17_Witness ==
    /\ NumDests = 2
    /\ Len(ring) = 1
    /\ \A i \in Created : rxAlive[i] /\ owed[i] = ring
    /\ phase[1] = "Publishing"

PhaseRank(p) ==
    CASE p = "Idle" -> 0
      [] p = "Connecting" -> 1
      [] p = "Handshaking" -> 2
      [] p = "Connected" -> 3
      [] p = "Publishing" -> 4
      [] OTHER -> 5

\* C18: a Publisher's phase moves one step forward along Connecting,
\* Handshaking, Connected, Publishing, or to Closed, and never leaves Closed;
\* its subscription is read, and a packet handed to the peer, only in
\* Publishing; a Lagged signal leaves it in Publishing with its subscription,
\* and its next receive is the oldest packet the Hub still retains.
C18_PhaseOrder ==
    [][\A i \in Pubs :
         /\ phase'[i] # phase[i] =>
               \/ PhaseRank(phase'[i]) = PhaseRank(phase[i]) + 1 /\ phase[i] # "Publishing"
               \/ phase'[i] = "Closed" /\ phase[i] # "Idle"
         /\ phase[i] = "Closed" => phase'[i] = "Closed"
         /\ ((next'[i] # next[i] \/ lastRecv'[i] # lastRecv[i]) /\ phase'[i] # "Closed") =>
               /\ phase[i] = "Publishing"
               /\ phase'[i] = "Publishing"
         /\ (phase[i] = "Publishing" /\ next'[i] # next[i] /\ RecvOutcome(i).kind = "lag"
               /\ closedBy'[i] = closedBy[i]) =>
               /\ phase'[i] = "Publishing"
               /\ rxAlive'[i]
               /\ lastRecv'[i].kind = "lag"
               /\ ring # <<>>
               /\ RecvOutcome(i)' = [kind |-> "pkt", pkt |-> ring[1]]]_vars

C18_Witness ==
    /\ phase[1] = "Publishing"
    /\ lastRecv[1].kind = "lag"
    /\ RecvOutcome(1).kind = "pkt"
    /\ phase[2] = "Closed" /\ closedBy[2] = "startup_error"

PrefixGiven == args.prefix.present /\ clipc \in {"generate", "resolved"}

\* the part of a generated destination after the prefix
Suffix(u) == SubSeq(u, Len(args.prefix.value) + 1, Len(u))

\* a decimal numeral without sign or leading zero
Canonical(s) ==
    /\ s # <<>>
    /\ \A k \in 1 .. Len(s) : IsDigit(s[k])
    /\ Len(s) > 1 => s[1] # "0"

\* C13: in prefix mode with concurrency N the destinations generated are the
\* prefix followed by the decimal numerals of 0, 1, ..., N-1, in that order:
\* the k-th one is the prefix and the numeral of k-1, no two are equal, never
\* more than N, and N of them when the generation has ended.
C13_PrefixGeneration ==
    PrefixGiven =>
        /\ Len(urls) <= Concurrency(args)
        /\ clipc = "resolved" => Len(urls) = Concurrency(args)
        /\ \A k \in 1 .. Len(urls) :
              /\ Len(urls[k]) > Len(args.prefix.value)
              /\ SubSeq(urls[k], 1, Len(args.prefix.value)) = args.prefix.value
              /\ Canonical(Suffix(urls[k]))
              /\ DigitsValue(Suffix(urls[k])) = k - 1
        /\ \A j, k \in 1 .. Len(urls) : j # k => urls[j] # urls[k]

C13_Witness ==
    /\ clipc = "resolved"
    /\ args.prefix.present
    /\ args.prefix.value = <<"s", "1">>
    /\ Concurrency(args) = MaxConcurrency
    /\ Len(urls) = MaxConcurrency
    /\ urls[1] = <<"s", "1", "0">>
    /\ urls[11] = <<"s", "1", "1", "0">>

PrefixMode(a) == a.prefix.present /\ a.concurrency.present /\ ~a.list.present

ListMode(a) == a.list.present /\ ~a.prefix.present /\ ~a.concurrency.present

ExactlyOneMode(a) == PrefixMode(a) \/ ListMode(a)

\* C14: for every combination of --prefix, --concurrency and the list file,
\* destinations are resolved only when exactly one mode is fully given (the
\* prefix with a concurrency, or the list file alone); with any other
\* combination the resolution ends in a failure with no destination produced:
\* the usage error of the argument parser, or the panic of main.rs:122 when
\* no list file is named.
C14_ExactlyOneMode ==
    /\ [](/\ clipc \in {"generate", "lines", "resolved"} => ExactlyOneMode(args)
          /\ ~ExactlyOneMode(args) =>
                /\ urls = <<>>
                /\ clipc \in {"start", "matched", "usage_error", "panic_no_list"})
    /\ [][(~ExactlyOneMode(args) /\ clipc' # clipc) =>
             \/ clipc' \in {"usage_error", "panic_no_list"}
             \/ clipc' = "matched" /\ ~args.prefix.present /\ ~args.list.present]_vars

C14_Witness ==
    /\ args.input
    /\ args.prefix.present /\ args.concurrency.present /\ args.list.present
    /\ Concurrency(args) = 2
    /\ clipc = "usage_error"

====
